---- MODULE Spec2Model ----
(***************************************************************************)
(* Model of finalproject2.py, a Streamlit dashboard over a CSV of air      *)
(* quality readings.  The script is top-level code: Streamlit executes it  *)
(* from the first line to the last once when the session starts and once   *)
(* more after every widget interaction.  One script run is modelled as the *)
(* steps Load, CheckColumn, Normalize, BuildCities, Render*; a widget      *)
(* interaction stores the new widget value and starts the next run.        *)
(*                                                                         *)
(* Strings that are only compared for equality (category names, column     *)
(* names, messages) are TLA+ strings.  City names are ordered by sorted(), *)
(* so a city value is a tagged record whose chars field is the sequence of *)
(* the code points of the string.                                          *)
(***************************************************************************)
EXTENDS Integers, Sequences, FiniteSets, TLC

\* ---- bounds of the model ----
MaxRows == 3            \* rows of the input file
MaxRuns == 3            \* script runs of one session (the first plus reruns)

\* ---- values ----
Str(s) == [type |-> "str", chars |-> s]
NaNCity == [type |-> "float", chars |-> <<>>]      \* an empty City cell, read as NaN
None == [type |-> "NoneType", chars |-> <<>>]      \* selectbox over an empty option list
NaN == -1                                          \* the float NaN of a numeric column
NaNCategory == "nan"                               \* an empty category cell, read as NaN

CatColumn == "PM2.5 AQI Category"

category_to_value ==
    ("Good" :> 25) @@ ("Moderate" :> 75) @@ ("Unhealthy for Sensitive Groups" :> 125)
    @@ ("Unhealthy" :> 175) @@ ("Very Unhealthy" :> 250) @@ ("Hazardous" :> 350)

TopN == 10
DefaultThreshold == 50
SliderMin == 0
SliderMax == 500
SliderDefault == 100

\* ---- the inputs the model draws from ----
CityB == Str(<<66>>)            \* "B"
Citya == Str(<<97>>)            \* "a"
CityBa == Str(<<66, 97>>)       \* "Ba"
CityBlank == Str(<<32>>)        \* " "
EmptyStr == Str(<<>>)           \* ""

InputRows ==
    { [City |-> CityB,     Category |-> "Good"],
      [City |-> Citya,     Category |-> "Moderate"],
      [City |-> CityB,     Category |-> "Unhealthy for Sensitive Groups"],
      [City |-> CityBa,    Category |-> "Moderate"],
      [City |-> CityBlank, Category |-> "Unhealthy"],
      [City |-> NaNCity,   Category |-> "Very Unhealthy"],
      [City |-> Citya,     Category |-> "Hazardous"],
      [City |-> CityB,     Category |-> "Unknown"],
      [City |-> Citya,     Category |-> NaNCategory] }

Col(name, padded) == [name |-> name, padded |-> padded]
Headers ==
    { {Col("City", FALSE), Col(CatColumn, FALSE), Col("lat", FALSE), Col("lng", FALSE)},
      {Col("City", FALSE), Col(CatColumn, FALSE)},
      {Col("City", FALSE), Col(CatColumn, TRUE), Col("lat", FALSE), Col("lng", FALSE)},
      {Col("City", FALSE), Col("lat", FALSE), Col("lng", FALSE)},
      {Col(CatColumn, FALSE), Col("lat", FALSE), Col("lng", FALSE)} }

RowSeqs == UNION { [1..n -> InputRows] : n \in 0..MaxRows }

Files ==
    { [state |-> "missing", header |-> {}, rows |-> <<>>],
      [state |-> "unreadable", header |-> {}, rows |-> <<>>] }
    \cup { [state |-> "ok", header |-> h, rows |-> r] : h \in Headers, r \in RowSeqs }

Thresholds == {SliderDefault, 75}
Tabs == {"Home", "City View", "AQI Summary", "Map View"}

\* ---- helpers ----
Range(s) == { s[i] : i \in 1..Len(s) }

Min2(a, b) == IF a <= b THEN a ELSE b

RECURSIVE Gcd(_, _)
Gcd(a, b) == IF b = 0 THEN a ELSE Gcd(b, a % b)

\* a float mean, kept exact: the reduced fraction sum/count
Frac(sum, cnt) == LET g == Gcd(sum, cnt) IN IF g = 0 THEN <<0, 1>> ELSE <<sum \div g, cnt \div g>>

RECURSIVE SumAQI(_)
SumAQI(rows) == IF rows = <<>> THEN 0 ELSE Head(rows).AQI + SumAQI(Tail(rows))

\* Series.mean(): NaN on an empty series
Mean(rows) == IF rows = <<>> THEN NaN ELSE Frac(SumAQI(rows), Len(rows))

\* Series.max(): NaN on an empty series
Max(rows) ==
    IF rows = <<>> THEN NaN
    ELSE CHOOSE m \in { r.AQI : r \in Range(rows) } : \A r \in Range(rows) : r.AQI <= m

\* Python's < on str: lexicographic on code points, a proper prefix is smaller
RECURSIVE StrLess(_, _)
StrLess(a, b) ==
    IF b = <<>> THEN FALSE
    ELSE IF a = <<>> THEN TRUE
    ELSE IF Head(a) # Head(b) THEN Head(a) < Head(b)
    ELSE StrLess(Tail(a), Tail(b))

IsSpace(c) == c \in {9, 10, 11, 12, 13, 28, 29, 30, 31, 32}

RECURSIVE LStrip(_)
LStrip(s) == IF s # <<>> /\ IsSpace(Head(s)) THEN LStrip(Tail(s)) ELSE s

RECURSIVE RStrip(_)
RStrip(s) == IF s # <<>> /\ IsSpace(s[Len(s)]) THEN RStrip(SubSeq(s, 1, Len(s) - 1)) ELSE s

\* str.strip()
strip(s) == RStrip(LStrip(s))

\* sorted() of a list of str values: ascending, stable
RECURSIVE InsertStr(_, _)
InsertStr(x, s) ==
    IF s = <<>> THEN <<x>>
    ELSE IF StrLess(x.chars, Head(s).chars) THEN <<x>> \o s
    ELSE <<Head(s)>> \o InsertStr(x, Tail(s))

RECURSIVE sorted(_)
sorted(list) ==
    IF list = <<>> THEN <<>>
    ELSE InsertStr(list[Len(list)], sorted(SubSeq(list, 1, Len(list) - 1)))

\* elementwise == of a column with a scalar: NaN and None equal nothing
Eq(a, b) == a.type = "str" /\ b.type = "str" /\ a.chars = b.chars

\* Python truth value of a city argument
Truthy(c) == CASE c.type = "str" -> c.chars # <<>>
               [] c.type = "NoneType" -> FALSE
               [] OTHER -> TRUE

\* ---- the dataframe operations the script uses ----

\* pd.read_csv: one record per data line, labelled 0, 1, 2, ... (the index)
read_csv(f) == [i \in 1..Len(f.rows) |->
                   [idx |-> i - 1, City |-> f.rows[i].City, Category |-> f.rows[i].Category]]

\* df.columns.str.strip()
StripColumns(cols) == { Col(c.name, FALSE) : c \in cols }

\* name in df.columns: an exact match of the column name
HasColumn(cols, name) == Col(name, FALSE) \in cols

\* one lookup of Series.map(dict): NaN for a value that is no key
MapCategory(cat) ==
    IF cat \in DOMAIN category_to_value THEN category_to_value[cat] ELSE NaN

\* df['Estimated AQI'] = df['PM2.5 AQI Category'].map(category_to_value)
AddEstimatedAQI(rows) ==
    [i \in 1..Len(rows) |->
        [idx |-> rows[i].idx, City |-> rows[i].City, Category |-> rows[i].Category,
         AQI |-> MapCategory(rows[i].Category)]]

\* dropna that drops nothing
dropna_KeepAll(rows) == rows

\* df.dropna(subset=['Estimated AQI'])
dropna(rows) == LET Keep(r) == r.AQI # NaN IN SelectSeq(rows, Keep)

\* Series.unique(): the distinct values in order of first appearance, NaN included
RECURSIVE unique(_)
unique(rows) ==
    IF rows = <<>> THEN <<>>
    ELSE LET front == unique(SubSeq(rows, 1, Len(rows) - 1))
             c == rows[Len(rows)].City
         IN IF c \in Range(front) THEN front ELSE Append(front, c)

\* the city list without the strip() test
BuildCityList_NoStrip(rows) ==
    LET Keep(c) == c.type = "str" /\ c.chars # <<>>
    IN sorted(SelectSeq(unique(rows), Keep))

\* sorted([city for city in df['City'].unique() if isinstance(city, str) and city.strip() != ''])
BuildCityList(rows) ==
    LET Keep(c) == c.type = "str" /\ strip(c.chars) # <<>>
    IN sorted(SelectSeq(unique(rows), Keep))

\* filter_data with >= for >
filter_data_Inclusive(rows, city, threshold) ==
    LET Both(r) == Eq(r.City, city) /\ r.AQI >= threshold
        Above(r) == r.AQI >= threshold
    IN IF Truthy(city) THEN SelectSeq(rows, Both) ELSE SelectSeq(rows, Above)

filter_data(rows, city, threshold) ==
    LET Both(r) == Eq(r.City, city) /\ r.AQI > threshold
        Above(r) == r.AQI > threshold
    IN IF Truthy(city) THEN SelectSeq(rows, Both) ELSE SelectSeq(rows, Above)

get_summary(rows) == <<Mean(rows), Max(rows)>>

\* {city: df[df['City'] == city]['Estimated AQI'].mean() for city in cities}
CityStats(rows, cs) ==
    [c \in Range(cs) |-> LET Of(r) == Eq(r.City, c) IN Mean(SelectSeq(rows, Of))]

\* the grouped mean taken over the cleaned city list instead of the raw column
groupby_mean_CityList(rows) ==
    LET keys == BuildCityList(rows)
    IN [i \in 1..Len(keys) |->
          LET Of(r) == Eq(r.City, keys[i])
          IN [City |-> keys[i], AQI |-> Mean(SelectSeq(rows, Of))]]

\* df.groupby('City')['Estimated AQI'].mean().reset_index(): one row per group key,
\* keys ascending; rows whose key is NaN belong to no group (dropna=True)
groupby_mean(rows) ==
    LET NotNa(c) == c.type = "str"
        keys == sorted(SelectSeq(unique(rows), NotNa))
    IN [i \in 1..Len(keys) |->
          LET Of(r) == Eq(r.City, keys[i])
          IN [City |-> keys[i], AQI |-> Mean(SelectSeq(rows, Of))]]

\* an unstable insertion: the later row first among equals
RECURSIVE InsertDesc_Unstable(_, _)
InsertDesc_Unstable(x, s) ==
    IF s = <<>> THEN <<x>>
    ELSE IF x.AQI >= Head(s).AQI THEN <<x>> \o s
    ELSE <<Head(s)>> \o InsertDesc_Unstable(x, Tail(s))

\* descending by Estimated AQI, the earlier row first among equals
RECURSIVE InsertDesc(_, _)
InsertDesc(x, s) ==
    IF s = <<>> THEN <<x>>
    ELSE IF x.AQI > Head(s).AQI THEN <<x>> \o s
    ELSE <<Head(s)>> \o InsertDesc(x, Tail(s))

RECURSIVE SortDesc(_)
SortDesc(rows) ==
    IF rows = <<>> THEN <<>>
    ELSE InsertDesc(rows[Len(rows)], SortDesc(SubSeq(rows, 1, Len(rows) - 1)))

\* df.nlargest(n, 'Estimated AQI'), keep='first'
nlargest(n, rows) ==
    IF n <= 0 THEN <<>> ELSE SubSeq(SortDesc(rows), 1, Min2(n, Len(rows)))

\* df[df['PM2.5 AQI Category'] == 'Moderate']
ModerateRows(rows) == LET Is(r) == r.Category = "Moderate" IN SelectSeq(rows, Is)

\* the two conditions joined by | for &
MultiFilter_Or(rows, default_city, default_threshold) ==
    LET Either(r) == r.AQI > default_threshold \/ Eq(r.City, default_city)
    IN SelectSeq(rows, Either)

\* df[(df['Estimated AQI'] > default_threshold) & (df['City'] == default_city)]
MultiFilter(rows, default_city, default_threshold) ==
    LET Both(r) == r.AQI > default_threshold /\ Eq(r.City, default_city)
    IN SelectSeq(rows, Both)

\* df['PM2.5 AQI Category'].value_counts(): category -> number of rows
value_counts(rows) ==
    [c \in { r.Category : r \in Range(rows) } |->
        Cardinality({ i \in 1..Len(rows) : rows[i].Category = c })]

\* df[df['City'] == map_city]
MapRows(rows, map_city) == LET Of(r) == Eq(r.City, map_city) IN SelectSeq(rows, Of)

\* st.selectbox(label, options) with the stored index: None over no options
selectbox(options, index) == IF options = <<>> THEN None ELSE options[index + 1]

\* ---- what a run puts on the page ----
NoTable == <<>>
BlankPage ==
    [tab |-> "none", error |-> "", warning |-> "", selected_city |-> None,
     threshold |-> NaN, filtered_df |-> NoTable, table_shown |-> FALSE,
     grouped_df |-> NoTable, summary |-> <<NaN, NaN>>, top10_df |-> NoTable,
     moderate_df |-> NoTable, multi_filter_df |-> NoTable, pie_data |-> <<>>,
     map_df |-> NoTable, map_shown |-> FALSE]

\* lines 85-94
HomePage == [BlankPage EXCEPT !.tab = "Home"]

\* City View with the bar chart taken from the filtered table
CityViewPage_Filtered(rows, cs, index, threshold) ==
    LET selected_city == selectbox(cs, index)
        filtered_df == filter_data(rows, selected_city, threshold)
    IN [BlankPage EXCEPT !.tab = "City View",
                         !.selected_city = selected_city,
                         !.threshold = threshold,
                         !.filtered_df = filtered_df,
                         !.table_shown = (filtered_df # <<>>),
                         !.warning = IF filtered_df = <<>>
                                     THEN "No data matches your filter."
                                     ELSE "",
                         !.grouped_df = groupby_mean(filtered_df)]

\* lines 96-121
CityViewPage(rows, cs, index, threshold) ==
    LET selected_city == selectbox(cs, index)
        filtered_df == filter_data(rows, selected_city, threshold)
    IN [BlankPage EXCEPT !.tab = "City View",
                         !.selected_city = selected_city,
                         !.threshold = threshold,
                         !.filtered_df = filtered_df,
                         !.table_shown = (filtered_df # <<>>),
                         !.warning = IF filtered_df = <<>>
                                     THEN "No data matches your filter."
                                     ELSE "",
                         !.grouped_df = groupby_mean(rows)]

\* lines 123-152
SummaryPage(rows, cs) ==
    LET default_city == IF cs # <<>> THEN cs[1] ELSE None
    IN [BlankPage EXCEPT !.tab = "AQI Summary",
                         !.summary = get_summary(rows),
                         !.top10_df = nlargest(TopN, rows),
                         !.moderate_df = ModerateRows(rows),
                         !.multi_filter_df = MultiFilter(rows, default_city, DefaultThreshold),
                         !.pie_data = value_counts(rows)]

\* lines 154-162
MapPage(rows, cols, cs, index) ==
    IF HasColumn(cols, "lat") /\ HasColumn(cols, "lng")
    THEN [BlankPage EXCEPT !.tab = "Map View",
                           !.map_df = MapRows(rows, selectbox(cs, index)),
                           !.map_shown = TRUE]
    ELSE [BlankPage EXCEPT !.tab = "Map View",
                           !.warning = "Latitude/Longitude data not available in the file."]

\* lines 38-162 for a file that passes the checks: the page of one whole run
RunScript(f, tab, cindex, threshold, mindex) ==
    LET rows == dropna(AddEstimatedAQI(read_csv(f)))
        cols == StripColumns(f.header) \cup {Col("Estimated AQI", FALSE)}
        cs == BuildCityList(rows)
    IN CASE tab = "Home" -> HomePage
         [] tab = "City View" -> CityViewPage(rows, cs, cindex, threshold)
         [] tab = "AQI Summary" -> SummaryPage(rows, cs)
         [] tab = "Map View" -> MapPage(rows, cols, cs, mindex)

\* ---- the state ----
VARIABLES
    file,            \* air_quality_index.csv as it is on disk
    pc,              \* position of the current script run
    runs,            \* script runs started in this session
    reads,           \* executions of pd.read_csv (line 40)
    normalizations,  \* executions of the map and dropna (lines 61-62)
    df,              \* the module-level dataframe: its rows
    columns,         \* df.columns
    cities,          \* the module-level city list
    city_stats,      \* the module-level dict city -> mean
    selected_tab,    \* value of the Navigation radio
    city_index,      \* index chosen in the "Choose a City" selectbox
    aqi_threshold,   \* value of the threshold slider
    map_index,       \* index chosen in the Map View selectbox
    out              \* what the current run has put on the page

vars == <<file, pc, runs, reads, normalizations, df, columns, cities, city_stats,
          selected_tab, city_index, aqi_threshold, map_index, out>>

widgets == <<selected_tab, city_index, aqi_threshold, map_index>>
counters == <<runs, reads, normalizations>>
data == <<df, columns, cities, city_stats>>

Init ==
    /\ file \in Files
    /\ pc = "load"
    /\ runs = 1
    /\ reads = 0
    /\ normalizations = 0
    /\ df = <<>>
    /\ columns = {}
    /\ cities = <<>>
    /\ city_stats = <<>>
    /\ selected_tab = "Home"
    /\ city_index = 0
    /\ aqi_threshold = SliderDefault
    /\ map_index = 0
    /\ out = BlankPage

\* lines 38-44: read the file and strip the column names; st.error and st.stop
\* on FileNotFoundError, any other exception ends the run with a traceback
Load ==
    /\ pc = "load"
    /\ reads' = reads + 1
    /\ CASE file.state = "ok" ->
              /\ df' = read_csv(file)
              /\ columns' = StripColumns(file.header)
              /\ pc' = "check"
              /\ out' = out
         [] file.state = "missing" ->
              /\ out' = [out EXCEPT !.error = "File not found. Please upload the correct file."]
              /\ pc' = "stopped"
              /\ UNCHANGED <<df, columns>>
         [] OTHER ->
              /\ out' = [out EXCEPT !.error = "PermissionError"]
              /\ pc' = "crashed"
              /\ UNCHANGED <<df, columns>>
    /\ UNCHANGED <<file, runs, normalizations, cities, city_stats, widgets>>

\* the column check that reports the error and goes on
CheckColumn_NoStop ==
    /\ pc = "check"
    /\ IF HasColumn(columns, CatColumn)
       THEN out' = out
       ELSE out' = [out EXCEPT !.error = "'PM2.5 AQI Category' column is missing."]
    /\ pc' = "normalize"
    /\ UNCHANGED <<file, counters, data, widgets>>

\* lines 56-59: the mandatory column
CheckColumn ==
    /\ pc = "check"
    /\ IF HasColumn(columns, CatColumn)
       THEN /\ pc' = "normalize"
            /\ out' = out
       ELSE /\ out' = [out EXCEPT !.error = "'PM2.5 AQI Category' column is missing."]
            /\ pc' = "stopped"
    /\ UNCHANGED <<file, counters, data, widgets>>

\* lines 61-62: derive Estimated AQI and drop the rows without one
Normalize ==
    /\ pc = "normalize"
    /\ df' = dropna(AddEstimatedAQI(df))
    /\ columns' = columns \cup {Col("Estimated AQI", FALSE)}
    /\ normalizations' = normalizations + 1
    /\ pc' = "cities"
    /\ UNCHANGED <<file, runs, reads, cities, city_stats, widgets, out>>

\* lines 64-80: the city list and city_stats; df['City'] raises KeyError
\* when the file has no City column
BuildCities ==
    /\ pc = "cities"
    /\ IF HasColumn(columns, "City")
       THEN /\ cities' = BuildCityList(df)
            /\ city_stats' = CityStats(df, BuildCityList(df))
            /\ pc' = "render"
            /\ out' = out
       ELSE /\ out' = [out EXCEPT !.error = "KeyError"]
            /\ pc' = "crashed"
            /\ UNCHANGED <<cities, city_stats>>
    /\ UNCHANGED <<file, counters, df, columns, widgets>>

\* lines 85-94
RenderHome ==
    /\ pc = "render"
    /\ selected_tab = "Home"
    /\ out' = HomePage
    /\ pc' = "idle"
    /\ UNCHANGED <<file, counters, data, widgets>>

\* lines 96-121
RenderCityView ==
    /\ pc = "render"
    /\ selected_tab = "City View"
    /\ out' = CityViewPage(df, cities, city_index, aqi_threshold)
    /\ pc' = "idle"
    /\ UNCHANGED <<file, counters, data, widgets>>

\* lines 123-152
RenderSummary ==
    /\ pc = "render"
    /\ selected_tab = "AQI Summary"
    /\ out' = SummaryPage(df, cities)
    /\ pc' = "idle"
    /\ UNCHANGED <<file, counters, data, widgets>>

\* Map View that treats the missing coordinates as the missing column is treated
RenderMapView_Fatal ==
    /\ pc = "render"
    /\ selected_tab = "Map View"
    /\ IF HasColumn(columns, "lat") /\ HasColumn(columns, "lng")
       THEN /\ out' = MapPage(df, columns, cities, map_index)
            /\ pc' = "idle"
       ELSE /\ out' = [out EXCEPT !.error = "Latitude/Longitude data not available in the file."]
            /\ pc' = "stopped"
    /\ UNCHANGED <<file, counters, data, widgets>>

\* lines 154-162
RenderMapView ==
    /\ pc = "render"
    /\ selected_tab = "Map View"
    /\ out' = MapPage(df, columns, cities, map_index)
    /\ pc' = "idle"
    /\ UNCHANGED <<file, counters, data, widgets>>

\* a rerun that keeps the dataframe of the run before and goes to the tabs
Rerun_Cached ==
    /\ pc = "idle"
    /\ runs < MaxRuns
    /\ runs' = runs + 1
    /\ pc' = "render"
    /\ out' = BlankPage
    /\ UNCHANGED <<file, reads, normalizations, data>>

\* A widget interaction: Streamlit stores the new value and executes the
\* script again from its first line, with a fresh namespace and a fresh page.
Rerun ==
    /\ pc = "idle"
    /\ runs < MaxRuns
    /\ runs' = runs + 1
    /\ pc' = "load"
    /\ df' = <<>>
    /\ columns' = {}
    /\ cities' = <<>>
    /\ city_stats' = <<>>
    /\ out' = BlankPage
    /\ UNCHANGED <<file, reads, normalizations>>

\* the Navigation radio (line 83); the widgets of the tab that is left are
\* not created by the next run, so they start from their defaults again
SelectTab(t) ==
    /\ t # selected_tab
    /\ Rerun
    /\ selected_tab' = t
    /\ city_index' = 0
    /\ aqi_threshold' = SliderDefault
    /\ map_index' = 0

\* the "Choose a City" selectbox (line 100)
SelectCity(i) ==
    /\ out.tab = "City View"
    /\ i # city_index
    /\ Rerun
    /\ city_index' = i
    /\ UNCHANGED <<selected_tab, aqi_threshold, map_index>>

\* the threshold slider (line 102)
SetThreshold(t) ==
    /\ out.tab = "City View"
    /\ t # aqi_threshold
    /\ Rerun
    /\ aqi_threshold' = t
    /\ UNCHANGED <<selected_tab, city_index, map_index>>

\* the Map View selectbox (line 158), created only when lat and lng exist
SelectMapCity(i) ==
    /\ out.tab = "Map View"
    /\ out.map_shown
    /\ i # map_index
    /\ Rerun
    /\ map_index' = i
    /\ UNCHANGED <<selected_tab, city_index, aqi_threshold>>

Next ==
    \/ Load
    \/ CheckColumn
    \/ Normalize
    \/ BuildCities
    \/ RenderHome
    \/ RenderCityView
    \/ RenderSummary
    \/ RenderMapView
    \/ \E t \in Tabs : SelectTab(t)
    \/ \E i \in 0..(Len(cities) - 1) : SelectCity(i)
    \/ \E t \in Thresholds : SetThreshold(t)
    \/ \E i \in 0..(Len(cities) - 1) : SelectMapCity(i)

Spec == Init /\ [][Next]_vars

\* ---- vocabulary of the properties ----
SixKeys == {"Good", "Moderate", "Unhealthy for Sensitive Groups", "Unhealthy",
            "Very Unhealthy", "Hazardous"}

MappedConstant(cat) ==
    CASE cat = "Good" -> 25
      [] cat = "Moderate" -> 75
      [] cat = "Unhealthy for Sensitive Groups" -> 125
      [] cat = "Unhealthy" -> 175
      [] cat = "Very Unhealthy" -> 250
      [] cat = "Hazardous" -> 350

\* the current run has derived the Estimated AQI column
IsNormalized == HasColumn(columns, "Estimated AQI")

\* the first run is at line 64: df has there each normalized value it ever
\* takes, so a pure function of df is examined there for all its arguments
FirstNormalized == pc = "cities" /\ runs = 1

\* the file has the mandatory column, whatever whitespace surrounds its name
FileHasCategory == \E c \in file.header : c.name = CatColumn

\* view is df restricted to the rows that satisfy P, in the order of df
IsSubview(view, rows, P(_)) ==
    /\ \A k \in 1..Len(view) : view[k] \in Range(rows) /\ P(view[k])
    /\ \A r \in Range(rows) : P(r) => r \in Range(view)
    /\ \A j, k \in 1..Len(view) : j < k => view[j].idx < view[k].idx

CityArgs == {None, EmptyStr, CityB, Citya, CityBa, CityBlank}
ThresholdArgs == {SliderMin, 25, DefaultThreshold, 75, SliderDefault, 125, 175, 349, 350, SliderMax}

\* C1: after normalization df is exactly the subsequence, in the original
\* order, of the input rows whose category is one of the six keys; every
\* retained row carries the constant mapped to its category; hence
\* |normalized| = |input| - |unmapped|.
C1_NormalizedDataset ==
    IsNormalized =>
        LET mapped == { i \in 1..Len(file.rows) : file.rows[i].Category \in SixKeys }
            unmapped == (1..Len(file.rows)) \ mapped
        IN /\ Len(df) = Len(file.rows) - Cardinality(unmapped)
           /\ \A k \in 1..Len(df) :
                 /\ df[k].idx + 1 \in mapped
                 /\ df[k].City = file.rows[df[k].idx + 1].City
                 /\ df[k].Category = file.rows[df[k].idx + 1].Category
                 /\ df[k].AQI = MappedConstant(df[k].Category)
           /\ \A j, k \in 1..Len(df) : j < k => df[j].idx < df[k].idx

\* a normalized dataset that kept a row after a dropped one
C1_Witness ==
    /\ IsNormalized
    /\ Len(df) >= 1
    /\ Len(df) < Len(file.rows)
    /\ df[Len(df)].idx > Len(df) - 1

\* C2: filter_data(ds, c, t) is exactly the rows with City == c and
\* Estimated AQI > t when a city is given (a non-empty string), exactly the
\* rows with Estimated AQI > t when it is omitted; a row at the threshold is
\* never returned; no match gives an empty view and no error.  The table of
\* City View is that view for the selected city and threshold.
C2_FilterExact ==
    /\ FirstNormalized =>
          \A c \in CityArgs \cup Range(BuildCityList(df)), t \in ThresholdArgs :
              \A view \in {filter_data(df, c, t)} :
                  LET Given(r) == r.City = c /\ r.AQI > t
                      Omitted(r) == r.AQI > t
                  IN /\ IF c.type = "str" /\ c.chars # <<>>
                        THEN IsSubview(view, df, Given)
                        ELSE IsSubview(view, df, Omitted)
                     /\ \A k \in 1..Len(view) : view[k].AQI # t
    /\ out.tab = "City View" =>
          LET Match(r) == (out.selected_city # None => r.City = out.selected_city)
                          /\ r.AQI > out.threshold
          IN /\ IsSubview(out.filtered_df, df, Match)
             /\ out.error = ""
             /\ pc = "idle"

\* City View shows the rows of the chosen city above a threshold that equals
\* the Estimated AQI of another row of that city
C2_Witness ==
    /\ out.tab = "City View"
    /\ out.selected_city # None
    /\ out.filtered_df # <<>>
    /\ \E r \in Range(df) : r.City = out.selected_city /\ r.AQI = out.threshold
    /\ \E r \in Range(df) : r.City # out.selected_city /\ r.AQI > out.threshold

\* C3: when the file cannot be opened or has no 'PM2.5 AQI Category' column
\* the run reports an error and halts: no Estimated AQI column, no city list
\* and no tab view come from it.
C3_FatalLoad ==
    (file.state # "ok" \/ ~FileHasCategory) =>
        /\ pc \in {"load", "check", "stopped", "crashed"}
        /\ ~IsNormalized
        /\ cities = <<>>
        /\ city_stats = <<>>
        /\ out.tab = "none"
        /\ pc \in {"stopped", "crashed"} <=> out.error # ""

\* a readable file without the column has stopped the run with the error
C3_Witness ==
    /\ file.state = "ok"
    /\ ~FileHasCategory
    /\ file.rows # <<>>
    /\ pc = "stopped"
    /\ out.error = "'PM2.5 AQI Category' column is missing."

\* C4: the city list holds exactly the distinct City values that are strings
\* with a non-whitespace character, without duplicates, ascending in the
\* case-sensitive lexicographic order.
C4_CityList ==
    pc \in {"render", "idle"} =>
        /\ Range(cities) =
              { r.City : r \in { x \in Range(df) :
                    /\ x.City.type = "str"
                    /\ \E i \in 1..Len(x.City.chars) : ~IsSpace(x.City.chars[i]) } }
        /\ \A j, k \in 1..Len(cities) : j < k => StrLess(cities[j].chars, cities[k].chars)

\* a list of two cities built from a dataset that also has a blank or a
\* missing City
C4_Witness ==
    /\ pc = "idle"
    /\ Len(cities) >= 2
    /\ \E r \in Range(df) : r.City \in {CityBlank, NaNCity}

\* top is a top-n selection of rows
TopNOf(top, rows, n) ==
    /\ Len(top) = Min2(n, Len(rows))
    /\ \A k \in 1..Len(top) : top[k] \in Range(rows)
    /\ \A j, k \in 1..Len(top) : j < k =>
          /\ top[j].AQI >= top[k].AQI
          /\ top[j].idx # top[k].idx
          /\ top[j].AQI = top[k].AQI => top[j].idx < top[k].idx
    /\ \A r \in Range(rows) : r \notin Range(top) =>
          \A k \in 1..Len(top) : r.AQI <= top[k].AQI

\* C5: nlargest(n, ds) returns min(n, |ds|) rows of ds in non-increasing
\* Estimated AQI, no row left out exceeds a row returned, and rows of equal
\* Estimated AQI keep their original order; AQI Summary shows it for n = 10.
C5_TopN ==
    /\ FirstNormalized =>
          \A n \in (0..(MaxRows + 1)) \cup {TopN} :
              \A top \in {nlargest(n, df)} : TopNOf(top, df, n)
    /\ out.tab = "AQI Summary" => TopNOf(out.top10_df, df, TopN)

\* AQI Summary of three rows, two of them of equal Estimated AQI and
\* following a smaller one
C5_Witness ==
    /\ out.tab = "AQI Summary"
    /\ Len(df) >= 3
    /\ df[1].AQI < df[2].AQI
    /\ df[2].AQI = df[3].AQI
    /\ Len(nlargest(2, df)) = 2

\* m is the exact arithmetic mean, sum divided by count, of the Estimated AQI
\* of the rows of the given City value
IsMeanOf(m, rows, c) ==
    LET of == { i \in 1..Len(rows) : rows[i].City = c }
        Of(r) == r.City = c
    IN /\ of # {}
       /\ Len(m) = 2
       /\ m[2] > 0
       /\ m[1] * Cardinality(of) = SumAQI(SelectSeq(rows, Of)) * m[2]

\* grouped has one entry for each City value of keys and no other, each with
\* the mean over the rows of that City in rows
GroupedBy(grouped, rows, keys) ==
    /\ { e.City : e \in Range(grouped) } = keys
    /\ Len(grouped) = Cardinality(keys)
    /\ \A e \in Range(grouped) : IsMeanOf(e.AQI, rows, e.City)

\* C6 as stated: the grouped mean has one entry per distinct value of the
\* raw City field, the missing (non-string) City included, each the
\* arithmetic mean of its rows.
C6_Original ==
    out.tab = "City View" =>
        GroupedBy(out.grouped_df, df, { r.City : r \in Range(df) })

\* C6 amended: the grouped mean has one entry per distinct City value that is
\* not missing, blank and whitespace-only values included, each the
\* arithmetic mean of its rows; the rows with a missing City form no group.
C6_GroupedMean ==
    out.tab = "City View" =>
        GroupedBy(out.grouped_df, df, { r.City : r \in { x \in Range(df) : x.City # NaNCity } })

\* a chart over a blank City that the city list excludes, a missing City, and
\* a city with a mean that is no integer
C6_Witness ==
    /\ out.tab = "City View"
    /\ \E r \in Range(df) : r.City = NaNCity
    /\ \E e \in Range(out.grouped_df) : e.City = CityBlank /\ e.City \notin Range(cities)
    /\ Len(out.grouped_df) >= 1

\* C7 as stated: the dataset is read and normalized once per process
\* lifetime, whatever the user does.
C7_Original == reads <= 1 /\ normalizations <= 1

\* C7 amended: the dataset is read and normalized exactly once per script
\* run, before the view of that run; every interaction starts a new run that
\* reads the file and normalizes again, so a session of k runs has read and
\* normalized k times.
C7_OncePerRun ==
    /\ reads = IF pc = "load" THEN runs - 1 ELSE runs
    /\ normalizations = IF IsNormalized THEN runs ELSE runs - 1
    /\ out.tab # "none" => IsNormalized /\ pc = "idle"

\* the page of a third run
C7_Witness ==
    /\ runs >= 3
    /\ pc = "idle"
    /\ reads = runs
    /\ normalizations = runs
    /\ df # <<>>

FileHasGeo == HasColumn(StripColumns(file.header), "lat") /\ HasColumn(StripColumns(file.header), "lng")
FileHasCity == HasColumn(StripColumns(file.header), "City")
WithGeo(f) == [f EXCEPT !.header = @ \cup {Col("lat", FALSE), Col("lng", FALSE)}]

\* C8: without lat/lng columns Map View shows the informational message and
\* no map, the run does not halt, and the other tabs show what they show for
\* the same file with the two columns present.
C8_NoGeo ==
    (file.state = "ok" /\ FileHasCategory /\ FileHasCity /\ ~FileHasGeo) =>
        /\ pc \notin {"stopped", "crashed"}
        /\ out.error = ""
        /\ pc = "idle" =>
              IF selected_tab = "Map View"
              THEN /\ out.tab = "Map View"
                   /\ out.warning = "Latitude/Longitude data not available in the file."
                   /\ ~out.map_shown
                   /\ out.map_df = NoTable
              ELSE out = RunScript(WithGeo(file), selected_tab, city_index,
                                   aqi_threshold, map_index)

\* Map View of a dataset without coordinates, reached from another tab
C8_Witness ==
    /\ ~FileHasGeo
    /\ df # <<>>
    /\ cities # <<>>
    /\ pc = "idle"
    /\ out.tab = "Map View"
    /\ out.warning # ""

\* C9 as stated: the fixed Multi-Filtered view equals filter_data(ds, default
\* city, 50), also when the city list is empty and the default city is None.
C9_Original ==
    out.tab = "AQI Summary" =>
        out.multi_filter_df =
            filter_data(df, IF cities # <<>> THEN cities[1] ELSE None, DefaultThreshold)

\* C9 amended: with a non-empty city list the fixed Multi-Filtered view equals
\* filter_data(ds, first city, 50); with an empty city list it is empty,
\* while filter_data(ds, None, 50) is every row above 50.
C9_MultiFilter ==
    out.tab = "AQI Summary" =>
        IF cities # <<>>
        THEN out.multi_filter_df = filter_data(df, cities[1], DefaultThreshold)
        ELSE out.multi_filter_df = <<>>

\* the fixed view shows a row of the first city and leaves out a row of that
\* city and a row above 50 of another
C9_Witness ==
    /\ out.tab = "AQI Summary"
    /\ cities # <<>>
    /\ out.multi_filter_df # <<>>
    /\ \E r \in Range(df) : r.City = cities[1] /\ r.AQI <= DefaultThreshold
    /\ \E r \in Range(df) : r.City # cities[1] /\ r.AQI > DefaultThreshold

\* C10: in City View the grouped mean is taken over the whole normalized
\* dataset, the same for every selected city and threshold, while the table
\* has only the rows of the selected city above the threshold and gives way
\* to the warning when there is none.
C10_WholeDataset ==
    out.tab = "City View" =>
        /\ \A e \in Range(out.grouped_df) : IsMeanOf(e.AQI, df, e.City)
        /\ \A r \in Range(df) : r.City.type = "str" =>
              \E e \in Range(out.grouped_df) : e.City = r.City
        /\ out.grouped_df =
              RunScript(file, "City View", 0, SliderDefault, 0).grouped_df
        /\ \A r \in Range(out.filtered_df) :
              /\ r \in Range(df)
              /\ r.AQI > out.threshold
              /\ out.selected_city # None => r.City = out.selected_city
        /\ out.table_shown <=> out.filtered_df # <<>>
        /\ out.warning = "No data matches your filter." <=> out.filtered_df = <<>>
        /\ out.warning # "" <=> ~out.table_shown

\* a selection other than the default whose table leaves out a row that the
\* chart counts
C10_Witness ==
    /\ out.tab = "City View"
    /\ (city_index # 0 \/ aqi_threshold # SliderDefault)
    /\ out.filtered_df # <<>>
    /\ Len(out.filtered_df) < Len(df)
    /\ Len(out.grouped_df) >= 2
====
